---- MODULE Spec2Model ----
(***************************************************************************)
(* Model of Rootfinding.ipynb: the recursive bisector `bisect` (with its   *)
(* helper `hasroot`) and the Newton iteration `newton`, run on the         *)
(* notebook's test functions and on a few further callables.               *)
(*                                                                         *)
(* Python floats are IEEE-754 binary64 numbers.  They are modelled bit for *)
(* bit: a finite non-zero float is a sign, a 53-bit mantissa and an        *)
(* exponent, every operation is computed exactly and then rounded to       *)
(* nearest, ties to even.  Mantissas do not fit TLC's 32-bit integers, so  *)
(* they are little-endian sequences of limbs in base 2^14.                 *)
(***************************************************************************)
EXTENDS Integers, Sequences, FiniteSets, TLC

(***************************************************************************)
(* Natural numbers of any size: sequences of limbs, least significant      *)
(* first, no leading zero limb; <<>> is 0.                                 *)
(***************************************************************************)
LimbBits == 7 * 2
Base == 2^LimbBits

Limb(a, i) == IF i >= 1 /\ i <= Len(a) THEN a[i] ELSE 0

RECURSIVE Trim(_)
Trim(a) ==
    IF a # <<>> /\ a[Len(a)] = 0 THEN Trim(SubSeq(a, 1, Len(a) - 1)) ELSE a

RECURSIVE NatToBig(_)
NatToBig(n) == IF n = 0 THEN <<>> ELSE <<n % Base>> \o NatToBig(n \div Base)

RECURSIVE AddFrom(_, _, _, _)
AddFrom(a, b, i, c) ==
    IF i > Len(a) /\ i > Len(b)
    THEN (IF c = 0 THEN <<>> ELSE <<c>>)
    ELSE LET s == Limb(a, i) + Limb(b, i) + c
         IN  <<s % Base>> \o AddFrom(a, b, i + 1, s \div Base)

BigAdd(a, b) == AddFrom(a, b, 1, 0)

RECURSIVE SubFrom(_, _, _, _)
SubFrom(a, b, i, br) ==
    IF i > Len(a)
    THEN <<>>
    ELSE LET d == Limb(a, i) - Limb(b, i) - br
         IN  IF d < 0
             THEN <<d + Base>> \o SubFrom(a, b, i + 1, 1)
             ELSE <<d>> \o SubFrom(a, b, i + 1, 0)

\* a - b for a >= b
BigSub(a, b) == Trim(SubFrom(a, b, 1, 0))

RECURSIVE CmpFrom(_, _, _)
CmpFrom(a, b, i) ==
    IF i = 0 THEN 0
    ELSE IF a[i] # b[i] THEN (IF a[i] < b[i] THEN -1 ELSE 1)
    ELSE CmpFrom(a, b, i - 1)

\* -1, 0, 1 as a < b, a = b, a > b
BigCmp(a, b) ==
    IF Len(a) # Len(b)
    THEN (IF Len(a) < Len(b) THEN -1 ELSE 1)
    ELSE CmpFrom(a, b, Len(a))

RECURSIVE MulSmall(_, _, _, _)
MulSmall(a, k, i, c) ==
    IF i > Len(a)
    THEN (IF c = 0 THEN <<>> ELSE <<c>>)
    ELSE LET p == a[i] * k + c
         IN  <<p % Base>> \o MulSmall(a, k, i + 1, p \div Base)

RECURSIVE MulFrom(_, _, _)
MulFrom(a, b, j) ==
    IF j > Len(b)
    THEN <<>>
    ELSE BigAdd(MulSmall(a, b[j], 1, 0), <<0>> \o MulFrom(a, b, j + 1))

BigMul(a, b) == Trim(MulFrom(a, b, 1))

RECURSIVE BigPow(_, _)
BigPow(a, n) == IF n = 0 THEN <<1>> ELSE BigMul(a, BigPow(a, n - 1))

RECURSIVE BitLenSmall(_)
BitLenSmall(n) == IF n = 0 THEN 0 ELSE 1 + BitLenSmall(n \div 2)

BitLen(a) ==
    IF a = <<>> THEN 0
    ELSE (Len(a) - 1) * LimbBits + BitLenSmall(a[Len(a)])

\* a * 2^k
Shl(a, k) ==
    IF a = <<>> THEN <<>>
    ELSE [i \in 1..(k \div LimbBits) |-> 0]
         \o Trim(MulSmall(a, 2^(k % LimbBits), 1, 0))

\* floor(a / 2^k)
Shr(a, k) ==
    LET q == k \div LimbBits
        r == k % LimbBits
    IN  IF Len(a) <= q THEN <<>>
        ELSE Trim([i \in 1..(Len(a) - q) |->
                     (Limb(a, i + q) \div 2^r)
                     + (Limb(a, i + q + 1) % 2^r) * 2^(LimbBits - r)])

\* bit k of a, bit 0 the least significant
Bit(a, k) == (Limb(a, k \div LimbBits + 1) \div 2^(k % LimbBits)) % 2

\* the k low bits of a are all zero
LowZero(a, k) ==
    /\ \A i \in 1..(k \div LimbBits) : Limb(a, i) = 0
    /\ Limb(a, k \div LimbBits + 1) % 2^(k % LimbBits) = 0

(***************************************************************************)
(* binary64 values.  k is "fin" (s: 0 for +, 1 for -; m: mantissa with     *)
(* exactly Precision bits; e: the value is m * 2^e), "zero", "inf" (an     *)
(* infinity of sign s, the result of +, -, * and / beyond the largest      *)
(* float), "nan" (numpy.NaN, inf - inf, inf * 0, inf / inf) or "oor": a    *)
(* result the model does not follow (below the smallest normal float, or   *)
(* an operation that raises: a division by zero, a power that overflows). *)
(***************************************************************************)
Precision == 53
MaxExp == 1023
MinExp == -1022

Fin(sgn, mant, ex) == [k |-> "fin", s |-> sgn, m |-> mant, e |-> ex]
Zero == [k |-> "zero", s |-> 0, m |-> <<>>, e |-> 0]
NaN == [k |-> "nan", s |-> 0, m |-> <<>>, e |-> 0]
OutOfRange == [k |-> "oor", s |-> 0, m |-> <<>>, e |-> 0]
Inf(sgn) == [k |-> "inf", s |-> sgn, m |-> <<>>, e |-> 0]

IsNum(x) == x.k \in {"fin", "zero"}

\* an operand is not a number: the result is "oor" if one is, NaN otherwise
NotANumber(x, y) == IF x.k = "oor" \/ y.k = "oor" THEN OutOfRange ELSE NaN

Ranged(sgn, mant, ex) ==
    IF ex + Precision - 1 > MaxExp THEN Inf(sgn)
    ELSE IF ex + Precision - 1 < MinExp THEN OutOfRange
    ELSE Fin(sgn, mant, ex)

\* the float nearest to (-1)^sgn * (n + t) * 2^ex, where 0 < t < 1 when
\* sticky and t = 0 otherwise; ties go to the even mantissa
Round(sgn, n, ex, sticky) ==
    IF n = <<>> THEN Zero
    ELSE LET L == BitLen(n)
         IN  IF L <= Precision
             THEN Ranged(sgn, Shl(n, Precision - L), ex - (Precision - L))
             ELSE LET sh    == L - Precision
                      q     == Shr(n, sh)
                      guard == Bit(n, sh - 1)
                      rest  == sticky \/ ~LowZero(n, sh - 1)
                      up    == guard = 1 /\ (rest \/ Bit(q, 0) = 1)
                      q1    == IF up THEN BigAdd(q, <<1>>) ELSE q
                  IN  IF BitLen(q1) > Precision
                      THEN Ranged(sgn, Shr(q1, 1), ex + sh + 1)
                      ELSE Ranged(sgn, q1, ex + sh)

FromInt(n) ==
    IF n < 0 THEN Round(1, NatToBig(-n), 0, FALSE)
    ELSE Round(0, NatToBig(n), 0, FALSE)

FNeg(x) == IF x.k \in {"fin", "inf"} THEN [x EXCEPT !.s = 1 - x.s] ELSE x

FAbs(x) == IF x.k \in {"fin", "inf"} THEN [x EXCEPT !.s = 0] ELSE x

\* beyond this exponent gap the smaller operand cannot change the rounded sum
AlignMax == Precision + 11

AddAligned(big, sml) ==
    LET nb == Shl(big.m, big.e - sml.e)
        c  == BigCmp(nb, sml.m)
    IN  IF big.s = sml.s THEN Round(big.s, BigAdd(nb, sml.m), sml.e, FALSE)
        ELSE IF c = 0 THEN Zero
        ELSE IF c > 0 THEN Round(big.s, BigSub(nb, sml.m), sml.e, FALSE)
        ELSE Round(sml.s, BigSub(sml.m, nb), sml.e, FALSE)

FAdd(x, y) ==
    IF x.k \in {"nan", "oor"} \/ y.k \in {"nan", "oor"} THEN NotANumber(x, y)
    ELSE IF x.k = "inf" THEN (IF y.k = "inf" /\ y.s # x.s THEN NaN ELSE x)
    ELSE IF y.k = "inf" THEN y
    ELSE IF x.k = "zero" THEN y
    ELSE IF y.k = "zero" THEN x
    ELSE LET big == IF x.e >= y.e THEN x ELSE y
             sml == IF x.e >= y.e THEN y ELSE x
         IN  IF big.e - sml.e > AlignMax THEN big ELSE AddAligned(big, sml)

FSub(x, y) == FAdd(x, FNeg(y))

FMul(x, y) ==
    IF x.k \in {"nan", "oor"} \/ y.k \in {"nan", "oor"} THEN NotANumber(x, y)
    ELSE IF x.k = "inf" \/ y.k = "inf"
    THEN (IF x.k = "zero" \/ y.k = "zero" THEN NaN ELSE Inf((x.s + y.s) % 2))
    ELSE IF x.k = "zero" \/ y.k = "zero" THEN Zero
    ELSE Round((x.s + y.s) % 2, BigMul(x.m, y.m), x.e + y.e, FALSE)

\* the largest q with q * d <= r, for r < d * Base: the quotient of the two
\* leading limbs by the leading limb of d is never too small; it is lowered
\* until it fits
RECURSIVE FitDigit(_, _, _)
FitDigit(r, d, q) ==
    IF BigCmp(Trim(MulSmall(d, q, 1, 0)), r) > 0 THEN FitDigit(r, d, q - 1) ELSE q

QuotDigit(r, d) ==
    LET lead == Limb(r, Len(d) + 1) * Base + Limb(r, Len(d))
        est  == lead \div d[Len(d)]
    IN  FitDigit(r, d, IF est > Base - 1 THEN Base - 1 ELSE est)

\* schoolbook division of n by d # 0, limb j of n downwards, r the remainder
\* and q the quotient of the limbs above j: <<quotient, remainder>>
RECURSIVE LongDiv(_, _, _, _, _)
LongDiv(n, d, j, r, q) ==
    IF j = 0 THEN <<Trim(q), r>>
    ELSE LET r1 == Trim(<<n[j]>> \o r)
             qd == QuotDigit(r1, d)
         IN  LongDiv(n, d, j - 1, BigSub(r1, Trim(MulSmall(d, qd, 1, 0))),
                     <<qd>> \o q)

BigDivMod(n, d) == LongDiv(n, d, Len(n), <<>>, <<>>)

\* the mantissas are scaled so that the quotient has more than Precision + 1
\* bits and the divisor's leading limb is at least Base / 2
QuotLimbs == (Precision + 2) \div LimbBits + 1
NormShift == (LimbBits - (Precision % LimbBits)) % LimbBits

\* x / y for y # 0 (Python raises ZeroDivisionError when y = 0)
FDiv(x, y) ==
    IF y.k = "zero" THEN OutOfRange
    ELSE IF x.k \in {"nan", "oor"} \/ y.k \in {"nan", "oor"} THEN NotANumber(x, y)
    ELSE IF x.k = "inf" THEN (IF y.k = "inf" THEN NaN ELSE Inf((x.s + y.s) % 2))
    ELSE IF y.k = "inf" THEN Zero
    ELSE IF x.k = "zero" THEN Zero
    ELSE LET qr == BigDivMod(Shl(x.m, QuotLimbs * LimbBits + NormShift),
                             Shl(y.m, NormShift))
         IN  Round((x.s + y.s) % 2, qr[1], x.e - y.e - QuotLimbs * LimbBits,
                   qr[2] # <<>>)

\* x ** n for a small integer n >= 1: the exact power, rounded once
\* (Python raises OverflowError when the power is beyond the largest float)
FPow(x, n) ==
    IF x.k \in {"nan", "oor"} THEN x
    ELSE IF x.k = "inf" THEN Inf((x.s * n) % 2)
    ELSE IF x.k = "zero" THEN Zero
    ELSE LET r == Round((x.s * n) % 2, BigPow(x.m, n), x.e * n, FALSE)
         IN  IF r.k = "inf" THEN OutOfRange ELSE r

FSign(x) == IF x.k = "zero" THEN 0 ELSE IF x.s = 1 THEN -1 ELSE 1

\* -1, 0, 1 as |x| < |y|, |x| = |y|, |x| > |y|, for non-zero x, y
MagCmp(x, y) ==
    IF x.k = "inf" \/ y.k = "inf"
    THEN (IF x.k = y.k THEN 0 ELSE IF y.k = "inf" THEN -1 ELSE 1)
    ELSE IF x.e # y.e THEN (IF x.e < y.e THEN -1 ELSE 1) ELSE BigCmp(x.m, y.m)

\* x < y; every comparison with a NaN is false
FLt(x, y) ==
    IF x.k \in {"nan", "oor"} \/ y.k \in {"nan", "oor"} THEN FALSE
    ELSE IF FSign(x) # FSign(y) THEN FSign(x) < FSign(y)
    ELSE IF FSign(x) = 0 THEN FALSE
    ELSE IF FSign(x) = 1 THEN MagCmp(x, y) < 0
    ELSE MagCmp(x, y) > 0

FLe(x, y) ==
    /\ x.k \notin {"nan", "oor"} /\ y.k \notin {"nan", "oor"}
    /\ ~FLt(y, x)

\* a decimal literal n/d, n and d exactly representable: the nearest float
Dec(n, d) == FDiv(FromInt(n), FromInt(d))

(***************************************************************************)
(* Exact arithmetic on values m * 2^e: the mantissa of a result may have   *)
(* any length, nothing is rounded.  It serves the statements about the     *)
(* real numbers the floats stand for and, with e = 0, the integers of      *)
(* wilkinson.                                                              *)
(***************************************************************************)
ExactAdd(u, w) ==
    IF u.k = "zero" THEN w
    ELSE IF w.k = "zero" THEN u
    ELSE LET big == IF u.e >= w.e THEN u ELSE w
             sml == IF u.e >= w.e THEN w ELSE u
             nb  == Shl(big.m, big.e - sml.e)
             c   == BigCmp(nb, sml.m)
         IN  IF big.s = sml.s THEN Fin(big.s, BigAdd(nb, sml.m), sml.e)
             ELSE IF c = 0 THEN Zero
             ELSE IF c > 0 THEN Fin(big.s, BigSub(nb, sml.m), sml.e)
             ELSE Fin(sml.s, BigSub(sml.m, nb), sml.e)

ExactSub(u, w) == ExactAdd(u, FNeg(w))

\* n * u for an integer 0 < n < Base
ExactTimes(n, u) ==
    IF u.k = "zero" THEN Zero ELSE Fin(u.s, Trim(MulSmall(u.m, n, 1, 0)), u.e)

\* |u| * 2^n <= |w|
ExactScaledLe(u, n, w) ==
    IF u.k = "zero" THEN TRUE
    ELSE IF w.k = "zero" THEN FALSE
    ELSE LET low == IF u.e + n <= w.e THEN u.e + n ELSE w.e
         IN  BigCmp(Shl(u.m, u.e + n - low), Shl(w.m, w.e - low)) <= 0

(***************************************************************************)
(* The callables.  A function handle maps x to <<value, derivative>>.      *)
(* f0, f3 and fquartic are the notebook's; shift and cubic are further     *)
(* callables a user may pass (f1 = cos(x) - x is transcendental and is not *)
(* modelled).  A handle is a record: the callable's name and, for shift,   *)
(* its constant.                                                           *)
(***************************************************************************)
One == FromInt(1)
Two == FromInt(2)
Three == FromInt(3)
Four == FromInt(4)
Quarter == Dec(1, 4)
NineTenths == Dec(9, 10)

\* x*x - 2, 2*x
f0(xx) == <<FSub(FMul(xx, xx), Two), FMul(Two, xx)>>

\* x*x - x + 0.25, 2*x - 1
f3(xx) == <<FAdd(FSub(FMul(xx, xx), xx), Quarter), FSub(FMul(Two, xx), One)>>

\* the derivative with the exponent as its factor: 3*(x - 0.9)**3
fquarticSlip(xx) ==
    <<FPow(FSub(xx, NineTenths), 4), FMul(Three, FPow(FSub(xx, NineTenths), 3))>>

\* (x - 0.9)**4, 4*(x - 0.9)**3
fquartic(xx) ==
    <<FPow(FSub(xx, NineTenths), 4), FMul(Four, FPow(FSub(xx, NineTenths), 3))>>

\* x - c, 1: a callable with its only root at c
shift(c, xx) == <<FSub(xx, c), One>>

\* x*x*x - 2*x + 2, 3*x*x - 2: Newton's method cycles 0, 1, 0, 1, ... on it
cubic(xx) ==
    <<FAdd(FSub(FMul(FMul(xx, xx), xx), FMul(Two, xx)), Two),
      FSub(FMul(FMul(Three, xx), xx), Two)>>

Handle(nm, cc) == [name |-> nm, c |-> cc]

\* the call f(x)
Apply(fn, xx) ==
    CASE fn.name = "f0" -> f0(xx)
      [] fn.name = "f3" -> f3(xx)
      [] fn.name = "fquartic" -> fquartic(xx)
      [] fn.name = "shift" -> shift(fn.c, xx)
      [] fn.name = "cubic" -> cubic(xx)

(***************************************************************************)
(* hasroot and the pieces of bisect                                        *)
(***************************************************************************)
\* f(a)[0]*f(b)[0] < 0
hasroot(fn, lo, hi) == FLt(FMul(Apply(fn, lo)[1], Apply(fn, hi)[1]), Zero)

\* mid = (a + b)/2.
Mid(lo, hi) == FDiv(FAdd(lo, hi), Two)

\* the tolerance of bisect, the literal 1e-5
BisectTol == Dec(1, 100000)

\* the tolerance mistyped: b-a < 1e-4
NarrowLoose(lo, hi) == FLt(FSub(hi, lo), Dec(1, 10000))

\* b-a < 1e-5
Narrow(lo, hi) == FLt(FSub(hi, lo), BisectTol)

\* what a call returns; kind "pending" until the call has returned
NoResult == [kind |-> "pending", x |-> Zero, fx |-> Zero, i |-> 0, h |-> <<>>]

\* the list forgotten: return mid whatever history is
BisectResultNoList(m, withList, hist) ==
    [kind |-> "mid", x |-> m, fx |-> Zero, i |-> 0, h |-> <<>>]

\* the result of bisect: return mid / return mid, numpy.array(history)
BisectResult(m, withList, hist) ==
    IF withList
    THEN [kind |-> "pair", x |-> m, fx |-> Zero, i |-> 0, h |-> hist]
    ELSE [kind |-> "mid", x |-> m, fx |-> Zero, i |-> 0, h |-> <<>>]

\* the calls of bisect the interpreter lets nest (sys.getrecursionlimit()
\* less the frames of the caller); the call after that raises RecursionError
MaxDepth == 40

\* the outer call of bisect ends in a RecursionError
RecursionError == [kind |-> "RecursionError", x |-> Zero, fx |-> Zero, i |-> 0,
                   h |-> <<>>]

(***************************************************************************)
(* The pieces of newton                                                    *)
(***************************************************************************)
\* for i in range(100)
MaxIter == 100

\* the residual tolerance, the literal 1e-12
ResidTol == FDiv(One, FMul(FromInt(1000000), FromInt(1000000)))

\* the test without the absolute value: fx < 1e-12
ConvergedNoAbs(fx) == FLt(fx, ResidTol)

\* numpy.abs(fx) < 1e-12
Converged(fx) == FLt(FAbs(fx), ResidTol)

\* no division is taken to fail (the try is left out)
DivisionNeverFails(dfx) == FALSE

\* fx / dfx raises ZeroDivisionError
DivisionFails(dfx) == dfx.k = "zero"

\* the step with the wrong sign: x += fx / dfx
NewtonUpdatePlus(xx, fx, dfx) == FAdd(xx, FDiv(fx, dfx))

\* x -= fx / dfx
NewtonUpdate(xx, fx, dfx) == FSub(xx, FDiv(fx, dfx))

\* the count one too high: return x, fx, i + 1
TripleCountsPasses(xx, fx, n) ==
    [kind |-> "triple", x |-> xx, fx |-> fx, i |-> n + 1, h |-> <<>>]

\* return x, fx, i
Triple(xx, fx, n) == [kind |-> "triple", x |-> xx, fx |-> fx, i |-> n, h |-> <<>>]

\* except ZeroDivisionError: return x, numpy.NaN, i
Sentinel(xx, n) == [kind |-> "sentinel", x |-> xx, fx |-> NaN, i |-> n, h |-> <<>>]

\* the loop ends and the function body with it: Python returns None
ReturnsNone == [kind |-> "None", x |-> Zero, fx |-> Zero, i |-> 0, h |-> <<>>]

(***************************************************************************)
(* The pieces of wilkinson.  The entries of a numpy integer array are      *)
(* two's complement integers of the width of the default integer type, 64  *)
(* bits, or 32 bits (NumPy before 2.0 on Windows); sums and products wrap. *)
(* An integer is Zero or Fin(sign, magnitude, 0).                          *)
(***************************************************************************)
IntWidths == {32, 64}

IntOf(k) ==
    IF k = 0 THEN Zero
    ELSE IF k < 0 THEN Fin(1, NatToBig(-k), 0) ELSE Fin(0, NatToBig(k), 0)

\* the lowest w bits of the natural number a
LowBits(a, w) ==
    Trim([j \in 1..(w \div LimbBits + 1) |->
            IF j <= w \div LimbBits THEN Limb(a, j)
            ELSE Limb(a, j) % 2^(w % LimbBits)])

\* the integer v reduced to the w-bit two's complement range
Wrap(v, w) ==
    IF v.k = "zero" THEN Zero
    ELSE LET low == LowBits(v.m, w)
             u   == IF v.s = 0 \/ low = <<>> THEN low
                    ELSE BigSub(Shl(<<1>>, w), low)
         IN  IF u = <<>> THEN Zero
             ELSE IF BitLen(u) = w THEN Fin(1, BigSub(Shl(<<1>>, w), u), 0)
             ELSE Fin(0, u, 0)

\* k * v for integers, |k| < Base
IntTimes(k, v) ==
    IF k = 0 THEN Zero
    ELSE IF k < 0 THEN FNeg(ExactTimes(-k, v)) ELSE ExactTimes(k, v)

\* entry j of the coefficient array q, zero outside it
Coef(q, j) == IF j >= 1 /\ j <= Len(q) THEN q[j] ELSE Zero

\* numpy.polymul(p, numpy.array([1, -i])): the convolution of the two arrays
\* in w-bit integers
polymul(q, k, w) ==
    [j \in 1..(Len(q) + 1) |->
        Wrap(ExactAdd(Wrap(IntTimes(1, Coef(q, j)), w),
                      Wrap(IntTimes(-k, Coef(q, j - 1)), w)), w)]

\* the array wilkinson returns
ArrayResult(q) == [kind |-> "array", x |-> Zero, fx |-> Zero, i |-> 0, h |-> q]

(***************************************************************************)
(* Inputs                                                                  *)
(***************************************************************************)
MaxEnd == 1
MaxShift == 1

\* bisect(tests[0], -1, 1), bisect(tests[0], 0, 2), bisect(f, -2, 2.1)
NotebookBrackets ==
    {<<FromInt(-1), One>>, <<Zero, Two>>, <<FromInt(-2), Dec(21, 10)>>}

\* 2^n
Pow2(n) == Fin(0, Shl(<<1>>, Precision - 1), n - (Precision - 1))

\* the float after xx > 0 (the mantissa of xx not being the largest)
NextUp(xx) == Fin(0, BigAdd(xx.m, <<1>>), xx.e)

\* two neighbouring floats further apart than the tolerance of bisect
WideNeighbours == <<Pow2(70), NextUp(Pow2(70))>>

\* 2^1023 and 1.5 * 2^1023: two floats whose sum is beyond the largest float
HugeEnds == <<Pow2(MaxExp), FMul(Dec(3, 2), Pow2(MaxExp))>>

Brackets ==
    NotebookBrackets
    \cup {<<FromInt(p), FromInt(q)>> : p, q \in -MaxEnd..MaxEnd}
    \cup {WideNeighbours, HugeEnds}

BisectFns ==
    {Handle("f0", Zero), Handle("f3", Zero)}
    \cup {Handle("shift", FDiv(FromInt(j), Two)) : j \in -MaxShift..MaxShift}

\* history=None (no list), history=[] and a list the caller already filled
Histories == {<<>>, <<FromInt(7)>>}

MaxStart == 2

\* the degrees wilkinson is called with: 0..MaxN
MaxN == 20

\* newton(f, 1), newton(f, -0.1), newton(fquartic, 0)
NotebookStarts == {One, Dec(-1, 10), Zero}

\* the halves up to MaxStart / 2 and a start next to the stationary point of f0
Starts ==
    NotebookStarts
    \cup {FDiv(FromInt(j), Two) : j \in -MaxStart..MaxStart}
    \cup {FPow(Dec(1, 1024), 5)}

NewtonFns ==
    {Handle("f0", Zero), Handle("f3", Zero), Handle("fquartic", Zero),
     Handle("cubic", Zero)}

VARIABLES
    proc,       \* the procedure called: "bisect" or "newton"
    pc,         \* "call": a call of bisect is about to run; "loop": newton is
                \* at the head of its loop; "done": the outer call returned
    f,          \* the function handle
    a, b,       \* the arguments a, b of the current call of bisect
    withHist,   \* history is not None
    history,    \* the caller's list
    x, i,       \* newton's x and loop index i
    returned,   \* the value returned
    a0, b0, h0, \* the arguments of the outer call of bisect
    calls,      \* the calls of bisect that ran
    lefts,      \* the calls of bisect that went on with the left half
    x0,         \* the start of newton
    evals,      \* the calls f(x) newton made
    updates,    \* the assignments to x newton made
    n, p,       \* wilkinson's n and p
    wi,         \* wilkinson's loop index i
    bits        \* the width of the integers of p

bisectVars == <<a, b, withHist, history, a0, b0, h0, calls, lefts>>
newtonVars == <<x, i, x0, evals, updates>>
wilkinsonVars == <<n, p, wi, bits>>
vars == <<proc, pc, f, returned, bisectVars, newtonVars, wilkinsonVars>>

InitBisect ==
    /\ proc = "bisect"
    /\ pc = "call"
    /\ f \in BisectFns
    /\ \E br \in Brackets : a = br[1] /\ b = br[2] /\ ~FLt(br[2], br[1])
    /\ withHist \in BOOLEAN
    /\ history \in IF withHist THEN Histories ELSE {<<>>}
    /\ returned = NoResult
    /\ a0 = a /\ b0 = b /\ h0 = history
    /\ calls = 0 /\ lefts = 0
    /\ x = Zero /\ i = 0 /\ x0 = Zero /\ evals = 0 /\ updates = 0
    /\ n = 0 /\ p = <<>> /\ wi = 0 /\ bits = 64

InitWilkinson ==
    /\ proc = "wilkinson"
    /\ pc = "loop"
    /\ n \in 0..MaxN
    /\ bits \in IntWidths
    /\ p = <<IntOf(1)>>
    /\ wi = 1
    /\ returned = NoResult
    /\ f = Handle("f0", Zero)
    /\ a = Zero /\ b = Zero /\ withHist = FALSE /\ history = <<>>
    /\ a0 = Zero /\ b0 = Zero /\ h0 = <<>> /\ calls = 0 /\ lefts = 0
    /\ x = Zero /\ i = 0 /\ x0 = Zero /\ evals = 0 /\ updates = 0

InitNewton ==
    /\ proc = "newton"
    /\ pc = "loop"
    /\ f \in NewtonFns
    /\ x \in Starts
    /\ i = 0
    /\ returned = NoResult
    /\ x0 = x /\ evals = 0 /\ updates = 0
    /\ a = Zero /\ b = Zero /\ withHist = FALSE /\ history = <<>>
    /\ a0 = Zero /\ b0 = Zero /\ h0 = <<>> /\ calls = 0 /\ lefts = 0
    /\ n = 0 /\ p = <<>> /\ wi = 0 /\ bits = 64

\* one call of bisect(f, a, b, history): it returns, or it calls itself on one
\* half, and the value of that call is returned unchanged
bisect ==
    /\ proc = "bisect" /\ pc = "call"
    /\ IF calls >= MaxDepth
       THEN /\ returned' = RecursionError
            /\ pc' = "done"
            /\ UNCHANGED <<a, b, history, calls, lefts>>
       ELSE /\ calls' = calls + 1
            /\ LET mid == Mid(a, b)
               IN  IF Narrow(a, b)
                   THEN /\ returned' = BisectResult(mid, withHist, history)
                        /\ pc' = "done"
                        /\ UNCHANGED <<a, b, history, lefts>>
                   ELSE /\ history' = IF withHist THEN Append(history, mid)
                                      ELSE history
                        /\ IF hasroot(f, a, mid)
                           THEN a' = a /\ b' = mid /\ lefts' = lefts + 1
                           ELSE a' = mid /\ b' = b /\ lefts' = lefts
                        /\ UNCHANGED <<pc, returned>>
    /\ UNCHANGED <<proc, f, withHist, a0, b0, h0, newtonVars, wilkinsonVars>>

\* one pass of newton's loop body, and the end of the loop after the last pass
newton ==
    /\ proc = "newton" /\ pc = "loop"
    /\ evals' = evals + 1
    /\ LET fd  == Apply(f, x)
           fx  == fd[1]
           dfx == fd[2]
       IN  IF Converged(fx)
           THEN /\ returned' = Triple(x, fx, i)
                /\ pc' = "done"
                /\ UNCHANGED <<x, i, updates>>
           ELSE IF DivisionFails(dfx)
           THEN /\ returned' = Sentinel(x, i)
                /\ pc' = "done"
                /\ UNCHANGED <<x, i, updates>>
           ELSE /\ x' = NewtonUpdate(x, fx, dfx)
                /\ updates' = updates + 1
                /\ IF i + 1 < MaxIter
                   THEN i' = i + 1 /\ UNCHANGED <<pc, returned>>
                   ELSE i' = i /\ pc' = "done" /\ returned' = ReturnsNone
    /\ UNCHANGED <<proc, f, x0, bisectVars, wilkinsonVars>>

\* one pass of wilkinson's loop, or the return after the last pass
wilkinson ==
    /\ proc = "wilkinson" /\ pc = "loop"
    /\ IF wi <= n
       THEN /\ p' = polymul(p, wi, bits)
            /\ wi' = wi + 1
            /\ UNCHANGED <<pc, returned>>
       ELSE /\ returned' = ArrayResult(p)
            /\ pc' = "done"
            /\ UNCHANGED <<p, wi>>
    /\ UNCHANGED <<proc, f, n, bits, bisectVars, newtonVars>>

NextBisect == bisect

NextNewton == newton

SpecBisect == InitBisect /\ [][NextBisect]_vars

SpecNewton == InitNewton /\ [][NextNewton]_vars

NextWilkinson == wilkinson

SpecWilkinson == InitWilkinson /\ [][NextWilkinson]_vars

Init == InitBisect \/ InitNewton \/ InitWilkinson

Next == bisect \/ newton \/ wilkinson

Spec == Init /\ [][Next]_vars

(***************************************************************************)
(* Claims about bisect, under SpecBisect                                   *)
(***************************************************************************)
\* the outer call was given a bracket a < b with a sign change
SignChange0 == FLt(a0, b0) /\ hasroot(f, a0, b0)

C2_SignChangeKept ==
    (proc = "bisect" /\ SignChange0) => hasroot(f, a, b)

\* the last interval holds a root of f: the values at its ends do not have
\* the same strict sign
HoldsRoot(fn, lo, hi) == FLe(FMul(Apply(fn, lo)[1], Apply(fn, hi)[1]), Zero)

\* C3: when the outer bracket has a sign change, the value bisect returns is
\* within 1e-5 of a root of f in the bracket: of the root c for the callable
\* x - c, and for the others the last interval (a', b') holds a root, which
\* for f0 is a'*a' <= 2 <= b'*b' or b'*b' <= 2 <= a'*a'.
C3_ReturnsNearRoot ==
    (proc = "bisect" /\ pc = "done" /\ SignChange0) =>
        IF f.name = "shift"
        THEN FLt(FAbs(FSub(returned.x, f.c)), Dec(1, 100000))
        ELSE HoldsRoot(f, a, b)

\* C4: a call of bisect on a bracket without a sign change does not end with
\* a numeric answer.
C4_InvalidBracketRejected ==
    (proc = "bisect" /\ pc = "done" /\ ~hasroot(f, a0, b0)) =>
        returned.kind \notin {"mid", "pair"}

(***************************************************************************)
(* Claims about newton, under SpecNewton                                   *)
(***************************************************************************)
\* C5: whatever f and the start, newton calls f at most 100 times and returns
\* a triple with a count of at most 100, also when the tolerance is never met.
C5_AlwaysReturnsTriple ==
    (proc = "newton" /\ pc = "done") =>
        /\ returned.kind \in {"triple", "sentinel"}
        /\ returned.i <= MaxIter
        /\ evals <= MaxIter

\* C6: a pass of the loop evaluates f at x; when |value| < 1e-12 it returns
\* that x, that value and i and leaves x alone, otherwise (the derivative not
\* being zero) x becomes x - value/derivative.  So a triple returned through
\* the tolerance test holds the value of f at the x it holds, below 1e-12.
C6_ToleranceReturn ==
    /\ [][(proc = "newton" /\ pc = "loop") =>
            LET v == Apply(f, x)
            IN  IF FLt(FAbs(v[1]), ResidTol)
                THEN /\ pc' = "done"
                     /\ x' = x
                     /\ returned' = [kind |-> "triple", x |-> x, fx |-> v[1],
                                     i |-> i, h |-> <<>>]
                ELSE v[2].k # "zero" => x' = FSub(x, FDiv(v[1], v[2]))]_vars
    /\ [](returned.kind = "triple" =>
            /\ returned.fx = Apply(f, returned.x)[1]
            /\ FLt(FAbs(returned.fx), ResidTol))

\* C6: newton returned through the tolerance test after some updates
C6_Witness == proc = "newton" /\ returned.kind = "triple" /\ returned.i > 0

C8_NearZeroDerivativeSentinel ==
    [][(/\ proc = "newton" /\ pc = "loop"
        /\ ~FLt(FAbs(Apply(f, x)[1]), ResidTol)
        /\ Apply(f, x)[2].k = "fin"
        /\ FLt(FAbs(Apply(f, x)[2]), ResidTol)) =>
            /\ pc' = "done"
            /\ x' = x
            /\ returned'.kind = "sentinel"]_vars

\* C9: newton(f0, 1) never gets to a tenth pass and returns through the
\* tolerance test, with a count below 10, a residual below 1e-12 in magnitude
\* and x between 1.4142135 and 1.4142136.
C9_SqrtTwoFromOne ==
    (proc = "newton" /\ f.name = "f0" /\ x0 = One) =>
        /\ i < 10
        /\ pc = "done" =>
            /\ returned.kind = "triple"
            /\ returned.i < 10
            /\ FLt(FAbs(returned.fx), ResidTol)
            /\ FLt(Dec(14142135, 10000000), returned.x)
            /\ FLt(returned.x, Dec(14142136, 10000000))

\* C9: newton(f0, 1) returned
C9_Witness == proc = "newton" /\ f.name = "f0" /\ x0 = One /\ pc = "done"

(***************************************************************************)
(* Claim about fquartic, under SpecNewton                                   *)
(***************************************************************************)
\* the distance, with its sign, of xx to the root of fquartic: the float 0.9
ToRoot(xx) == ExactSub(xx, NineTenths)

\* 4 * (distance after the update) - 3 * (distance before it)
FactorDefect(before, after) ==
    ExactSub(ExactTimes(4, ToRoot(after)), ExactTimes(3, ToRoot(before)))

\* newton(fquartic, 0) stops on the residual test after more than 10 and fewer
\* than 100 passes, at an x further than 1e-4 from 0.9
QuarticRunFromZero ==
    (proc = "newton" /\ f.name = "fquartic" /\ x0 = Zero /\ pc = "done") =>
        /\ returned.kind = "triple"
        /\ returned.i > 10 /\ returned.i < MaxIter
        /\ FLt(FAbs(returned.fx), ResidTol)
        /\ FLt(Dec(1, 10000), FAbs(FSub(returned.x, NineTenths)))

\* C10 as stated: on fquartic every update multiplies the distance of x to
\* the root 0.9 by exactly 3/4, and newton(fquartic, 0) stops on the residual
\* test after more than 10 and fewer than 100 passes further than 1e-4 from
\* the root.
C10_FactorExactlyThreeQuarters ==
    /\ []QuarticRunFromZero
    /\ [][(proc = "newton" /\ f.name = "fquartic" /\ updates' = updates + 1) =>
            FactorDefect(x, x') = Zero]_vars

\* C10 amended: every update multiplies the distance by 3/4 up to rounding:
\* the factor differs from 3/4 by at most 2^-32 (4 * after and 3 * before
\* differ by at most 2^-30 of the distance before); the rest as stated.
C10_FactorNearThreeQuarters ==
    /\ []QuarticRunFromZero
    /\ [][(proc = "newton" /\ f.name = "fquartic" /\ updates' = updates + 1) =>
            ExactScaledLe(FactorDefect(x, x'), 30, ToRoot(x))]_vars

\* C10: newton(fquartic, 0) returned after more than 10 updates
C10_Witness ==
    /\ proc = "newton" /\ f.name = "fquartic" /\ x0 = Zero
    /\ pc = "done" /\ updates > 10

(***************************************************************************)
(* Further claims about bisect, under SpecBisect                           *)
(***************************************************************************)
\* C11: called with a list, bisect returns the pair of x and the list, which
\* holds the entries it had at the call followed by the midpoint of every
\* call but the last, in call order (each such call appends its midpoint, the
\* last call appends nothing, no entry is removed or moved); called without a
\* list it returns x alone.
C11_HistoryAppended ==
    /\ [][(proc = "bisect" /\ pc = "call") =>
            IF pc' = "call"
            THEN history' = IF withHist
                            THEN history \o <<FDiv(FAdd(a, b), Two)>>
                            ELSE history
            ELSE history' = history]_vars
    /\ [](proc = "bisect" =>
            /\ Len(history) >= Len(h0)
            /\ SubSeq(history, 1, Len(h0)) = h0
            /\ (pc = "done" /\ returned.kind \in {"mid", "pair"}) =>
                 IF withHist
                 THEN /\ returned.kind = "pair"
                      /\ returned.h = history
                      /\ Len(returned.h) = Len(h0) + calls - 1
                 ELSE returned.kind = "mid")

\* C11: a call given a list that was not empty returned after several calls
C11_Witness ==
    /\ proc = "bisect" /\ pc = "done" /\ withHist /\ h0 # <<>>
    /\ returned.kind = "pair" /\ Len(returned.h) > Len(h0) + 2

\* the width b - a of the interval of the current call, as a real number
Width == ExactSub(b, a)

\* k is the smallest number with w / 2^k < 1e-5, for a width w > 0
SmallestHalvings(w, k) ==
    /\ ~ExactScaledLe(BisectTol, k, w)
    /\ k > 0 => ExactScaledLe(BisectTol, k - 1, w)

\* C12: for a bracket a < b every recursive call gets an interval of exactly
\* half the width of its caller's, no call of bisect fails for want of a cap,
\* and the outer call returns after the smallest k with (b - a)/2^k < 1e-5
\* halvings, which is 18 for the bracket [0, 2].
C12_HalvesAndTerminates ==
    /\ [][(proc = "bisect" /\ FLt(a0, b0) /\ pc = "call" /\ pc' = "call") =>
            ExactSub(ExactTimes(2, Width'), Width) = Zero]_vars
    /\ [](proc = "bisect" /\ FLt(a0, b0) /\ pc = "done" =>
            /\ returned.kind \in {"mid", "pair"}
            /\ SmallestHalvings(ExactSub(b0, a0), calls - 1)
            /\ (a0 = Zero /\ b0 = Two) => calls - 1 = 18)

\* the call returned a number
Numeric == returned.kind \in {"mid", "pair"}

\* C14: a call of bisect whose interval shows no strict sign change between
\* its left end and its midpoint, f(a')*f(mid) >= 0, goes on with the right
\* half and leaves b alone; when that is so at every call of a run, b is the
\* b of the outer call throughout and the value returned is within 1e-5 of it.
C14_KeepsRightHalf ==
    /\ [][(/\ proc = "bisect" /\ pc = "call" /\ pc' = "call"
           /\ ~FLt(FMul(Apply(f, a)[1], Apply(f, FDiv(FAdd(a, b), Two))[1]),
                   Zero)) =>
            /\ a' = FDiv(FAdd(a, b), Two)
            /\ b' = b
            /\ lefts' = lefts]_vars
    /\ []((proc = "bisect" /\ lefts = 0) =>
            /\ b = b0
            /\ (pc = "done" /\ Numeric) =>
                 FLt(FAbs(FSub(returned.x, b0)), BisectTol))

\* C15: for a bracket a <= b the interval (a', b') of every call of bisect
\* has a <= a' <= b' <= b, the value returned and every midpoint appended to
\* the list lie in [a, b], and a call that recurses replaces exactly one end
\* by its midpoint and keeps the other.
C15_StaysInsideBracket ==
    /\ [][(proc = "bisect" /\ pc = "call" /\ pc' = "call") =>
            LET mid == FDiv(FAdd(a, b), Two)
            IN  (a' = a /\ b' = mid) # (a' = mid /\ b' = b)]_vars
    /\ [](proc = "bisect" =>
            /\ FLe(a0, a) /\ FLe(a, b) /\ FLe(b, b0)
            /\ \A j \in (Len(h0) + 1)..Len(history) :
                  FLe(a0, history[j]) /\ FLe(history[j], b0)
            /\ (pc = "done" /\ Numeric) =>
                  FLe(a0, returned.x) /\ FLe(returned.x, b0))

(***************************************************************************)
(* Further claim about newton, under SpecNewton                            *)
(***************************************************************************)
\* C16: when newton has returned a triple with count i, through the tolerance
\* test or through the handler of the zero division, it has updated x exactly
\* i times and called f exactly i + 1 times, and 0 <= i <= 99; when
\* |f(x0)| < 1e-12 it returns x0, f(x0) and 0 without any update.
C16_CountsUpdates ==
    /\ (proc = "newton" /\ pc = "done"
        /\ returned.kind \in {"triple", "sentinel"}) =>
            /\ updates = returned.i
            /\ evals = returned.i + 1
            /\ 0 <= returned.i /\ returned.i <= 99
    /\ (proc = "newton" /\ FLt(FAbs(Apply(f, x0)[1]), ResidTol)) =>
            /\ x = x0 /\ updates = 0
            /\ pc = "done" =>
                 returned = [kind |-> "triple", x |-> x0,
                             fx |-> Apply(f, x0)[1], i |-> 0, h |-> <<>>]

\* C16: newton returned a triple after several updates
C16_Witness ==
    /\ proc = "newton" /\ pc = "done"
    /\ returned.kind = "triple" /\ returned.i > 1 /\ updates > 1

(***************************************************************************)
(* Claim about wilkinson, under SpecWilkinson                              *)
(***************************************************************************)
\* the value at the integer k of the polynomial with the coefficients q,
\* highest power first, by Horner's rule from entry j on, in exact integers
RECURSIVE HornerFrom(_, _, _, _)
HornerFrom(q, j, k, acc) ==
    IF j > Len(q) THEN acc
    ELSE HornerFrom(q, j + 1, k, ExactAdd(IntTimes(k, acc), q[j]))

Horner(q, k) == HornerFrom(q, 1, k, Zero)

\* the integers the polynomial is evaluated at
EvalPoints == -1..(MaxN + 2)

\* C13: wilkinson(n) returns n + 1 integer coefficients, the first one 1, of
\* a polynomial that is zero at every integer k with 1 <= k <= n and at no
\* other integer.
C13_WilkinsonCoefficients ==
    (proc = "wilkinson" /\ pc = "done") =>
        /\ returned.kind = "array"
        /\ Len(returned.h) = n + 1
        /\ returned.h[1] = IntOf(1)
        /\ \A k \in EvalPoints :
              (Horner(returned.h, k) = Zero) <=> (1 <= k /\ k <= n)
====
